---- MODULE Spec2Model ----
(***************************************************************************)
(* Model of the kinshi entity store (id-sorted slice revision): identity   *)
(* allocation, add / remove / get, the dynamic component table and the     *)
(* fan-out scan ECS.Iterate.                                               *)
(***************************************************************************)
EXTENDS Integers, Sequences, FiniteSets, TLC

\* ---------------------------------------------------------------- bounds
NumEnts == 3        \* entity objects the caller holds
MaxId == 3          \* cap on the allocator counter and on caller-preset ids
MaxRoutines == 4    \* largest worker count passed to SetRoutineCount
MaxVal == 1         \* component contents range over 0..MaxVal
MaxArgs == 2        \* most ids passed to one IterateID call
NumThreads == 2     \* caller threads working on one store concurrently
MaxImport == 2      \* most entities in one snapshot passed to Unmarshal
MaxWorkers == 2     \* largest goroutine count set while table calls run

\* ------------------------------------------------------------- constants
EntityNone == 0

Ents == 1..NumEnts
Ids == 0..MaxId

\* The two entity types of the test suite: Unit (static) and DynamicUnit.
\* getTypeName(ent): of every three entity objects the second is a
\* *DynamicUnit, the others are *Unit.
getTypeName(e) == IF e % 3 = 2 THEN "DynamicUnit" ELSE "Unit"

\* ent.(DynamicEntity): only DynamicUnit embeds BaseDynamicEntity.
IsDynamicEntity(e) == getTypeName(e) = "DynamicUnit"

\* Direct fields of struct kind of each entity type (what cacheType records).
StructFields(tn) ==
    IF tn = "Unit" THEN {"BaseEntity", "Health", "Pos", "Name"}
    ELSE {"BaseDynamicEntity", "Name"}

\* Component types a caller attaches dynamically / asks a scan for.
DynTypes == {"Pos", "Velocity"}
ReqTypes == {"Name", "Pos", "Velocity"}

VARIABLES
    id,          \* BaseEntity.id of every entity object
    components,  \* BaseDynamicEntity.components: type names held by the table
    idCounter,   \* ECS.idCounter
    entities,    \* ECS.entities: sequence of entityEntry
    metaCache,   \* ECS.metaCache: type name -> set of struct field names
    routines,    \* ECS.routines
    ret,         \* what the last call returned to its caller
    addLog,      \* history: ids returned by AddEntity calls on unset identity
                 \* since the allocator was last reset
    preset,      \* history: TRUE once a caller has preset an identifier
    foundEnts,   \* IterateSpecific: the shared result slice of a running scan
    workers,     \* IterateSpecific: worker -> its position (<<>> when no scan)
    searchName,  \* IterateSpecific: the type name a running scan looks for
    fields,      \* contents of the component fields of every entity struct
    dynVal,      \* contents of the entries of every dynamic component table
    dynPtr,      \* the table entries that hold a pointer (the others a value)
    idCounterB,  \* a second ECS instance: its idCounter
    entitiesB,   \* a second ECS instance: its entities
    metaCacheB,  \* a second ECS instance: its metaCache
    lock,        \* ECS.RWMutex: writer inside, readers inside, writers waiting
    threads,     \* what every caller thread is in the middle of
    entLock      \* BaseDynamicEntity.Mutex of every entity: its holder

\* State of a running IterateSpecific call.
scanVars == <<foundEnts, workers, searchName>>
\* Component contents.
valVars == <<fields, dynVal, dynPtr>>
\* The second store.
storeBVars == <<idCounterB, entitiesB, metaCacheB>>

\* The store lock and the callers working concurrently.
thrVars == <<lock, threads, entLock>>

vars == <<id, components, idCounter, entities, metaCache, routines, ret,
          addLog, preset, scanVars, valVars, storeBVars, thrVars>>

Vals == 0..MaxVal

Threads == 1..NumThreads

\* sync.RWMutex: w = a writer is inside, r = number of readers inside,
\* ww = number of writers blocked in Lock().
Unlocked == [w |-> FALSE, r |-> 0, ww |-> 0]

\* Variant of Lock() that does not wait for the readers inside.
canLock_ignoreReaders(l) == ~l.w

\* Lock() returns at once iff no writer and no reader is inside.
canLock(l) == ~l.w /\ l.r = 0

\* RLock() returns at once iff no writer is inside and none is waiting.
canRLock(l) == ~l.w /\ l.ww = 0

\* A caller thread: pc = what it is in the middle of, ent = the entity the
\* call is about, fresh = the call found the identity unset.
Thread(pc, e, fresh) == [pc |-> pc, ent |-> e, fresh |-> fresh]

Idle == Thread("idle", 0, FALSE)

\* Holders of an entity mutex: a caller thread t is t, worker goroutine w of
\* the running scan is -(w + 1), nobody is 0.
NoHolder == 0
workerHolder(w) == 0 - (w + 1)

\* The last call: its inputs (ent, id, types, arg) and outputs (err, res).
RetA(op, e, i, err, res, types, arg) ==
    [op |-> op, ent |-> e, id |-> i, err |-> err, res |-> res, types |-> types,
     arg |-> arg]

Ret(op, e, i, err, res, types) == RetA(op, e, i, err, res, types, <<>>)

\* ------------------------------------------------------------- helpers
Range(s) == {s[k] : k \in 1..Len(s)}

\* Entities that have an entry in the store, and the ids they carry.
LiveEnts == {entities[k].Ent : k \in 1..Len(entities)}
LiveIds == {id[entities[k].Ent] : k \in 1..Len(entities)}

\* Variant of the search predicate: strict comparison  ID() > id.
RECURSIVE sortSearch_strict(_, _, _, _, _)
sortSearch_strict(ents, ids, target, i, j) ==
    IF i < j
    THEN LET h == (i + j) \div 2
         IN  IF ~(ids[ents[h + 1].Ent] > target)
             THEN sortSearch_strict(ents, ids, target, h + 1, j)
             ELSE sortSearch_strict(ents, ids, target, i, h)
    ELSE i

\* sort.Search(n, f): binary search for the smallest index in [0, n) at which
\* f holds; here f(h) is  ents[h].Ent.ID() >= target  (0-based index h).
RECURSIVE sortSearch(_, _, _, _, _)
sortSearch(ents, ids, target, i, j) ==
    IF i < j
    THEN LET h == (i + j) \div 2
         IN  IF ~(ids[ents[h + 1].Ent] >= target)
             THEN sortSearch(ents, ids, target, h + 1, j)
             ELSE sortSearch(ents, ids, target, i, h)
    ELSE i

\* ECS.findEntity: (entry, index, ok); index is 0-based as in the source.
findEntity(ents, ids, target) ==
    LET l == Len(ents)
        found == sortSearch(ents, ids, target, 0, l)
    IN  IF found = l
        THEN [ok |-> FALSE, idx |-> 0, ent |-> 0]
        ELSE [ok |-> TRUE, idx |-> found, ent |-> ents[found + 1].Ent]

\* Variant of nextId that hands out the counter without advancing it.
nextId_noIncrement(ctr) == ctr

\* ECS.nextId: the incremented counter (uint64; the guard of AddEntity keeps
\* it below MaxId, far from the wrap).
nextId(ctr) == ctr + 1

\* Variant of cacheType that rebuilds the cache with the type of ent alone.
cacheType_rebuild(cache, e) ==
    [t \in {getTypeName(e)} |-> StructFields(getTypeName(e))]

\* ECS.cacheType: write the descriptor of ent's type unless already cached.
cacheType(cache, e) ==
    LET tn == getTypeName(e)
    IN  IF tn \in DOMAIN cache
        THEN cache
        ELSE [t \in (DOMAIN cache) \cup {tn} |->
                 IF t = tn THEN StructFields(tn) ELSE cache[t]]

Init ==
    /\ id = [e \in Ents |-> EntityNone]
    /\ components = [e \in Ents |-> {}]
    /\ idCounter = 0
    /\ entities = <<>>
    /\ metaCache = <<>>
    /\ routines = 1
    /\ ret = Ret("New", 0, 0, "nil", <<>>, {})
    /\ addLog = <<>>
    /\ preset = FALSE
    /\ foundEnts = <<>>
    /\ workers = <<>>
    /\ searchName = ""
    /\ fields = [e \in Ents |-> [c \in StructFields(getTypeName(e)) |-> 0]]
    /\ dynVal = [e \in Ents |-> [c \in DynTypes |-> 0]]
    /\ dynPtr = [e \in Ents |-> {}]
    /\ idCounterB = 0
    /\ entitiesB = <<>>
    /\ metaCacheB = <<>>
    /\ lock = Unlocked
    /\ threads = [t \in Threads |-> Idle]
    /\ entLock = [e \in Ents |-> NoHolder]

\* The caller (or a deserializer) sets the identifier of an entity it holds
\* and that is not stored: BaseEntity.SetID.
SetID(e, i) ==
    /\ e \notin LiveEnts
    /\ id[e] # i
    /\ id' = [id EXCEPT ![e] = i]
    /\ preset' = TRUE
    /\ ret' = Ret("SetID", e, i, "nil", <<>>, {})
    /\ UNCHANGED <<components, idCounter, entities, metaCache, routines, addLog>>
    /\ UNCHANGED <<scanVars, valVars, storeBVars>>
    /\ UNCHANGED thrVars

\* ECS.AddEntity
AddEntity(e) ==
    LET fresh == id[e] = 0
        ctr == IF fresh THEN nextId(idCounter) ELSE idCounter
        id1 == IF fresh THEN [id EXCEPT ![e] = ctr] ELSE id
        f == findEntity(entities, id1, id1[e])
    IN  /\ fresh => idCounter < MaxId
        /\ id' = id1
        /\ idCounter' = ctr
        /\ addLog' = IF fresh THEN Append(addLog, id1[e]) ELSE addLog
        /\ metaCache' = cacheType(metaCache, e)
        /\ IF f.ok
           THEN /\ entities' = entities
                /\ ret' = Ret("AddEntity", e, id1[e], "ErrAlreadyExists", <<>>, {})
           ELSE /\ entities' = Append(entities,
                                  [TypeName |-> getTypeName(e), Ent |-> e])
                /\ ret' = Ret("AddEntity", e, id1[e], "nil", <<>>, {})
        /\ UNCHANGED <<components, routines, preset>>
        /\ UNCHANGED <<scanVars, valVars, storeBVars>>
        /\ UNCHANGED thrVars

\* entities[:idx] ++ entities[idx+1:]  (0-based idx)
removeAt(ents, idx) ==
    SubSeq(ents, 1, idx) \o SubSeq(ents, idx + 2, Len(ents))

\* ECS.RemoveEntity from ecs.Lock() to its return: the lookup by the
\* identifier the entity carries now, the deletion and the identity reset.
removeLocked(e) ==
    LET f == findEntity(entities, id, id[e])
    IN  /\ IF f.ok
           THEN /\ entities' = removeAt(entities, f.idx)
                /\ id' = [id EXCEPT ![e] = EntityNone]
                /\ ret' = Ret("RemoveEntity", e, id[e], "nil", <<>>, {})
           ELSE /\ ret' = Ret("RemoveEntity", e, id[e], "ErrNotFound", <<>>, {})
                /\ UNCHANGED <<id, entities>>
        /\ UNCHANGED <<components, idCounter, metaCache, routines, addLog, preset>>
        /\ UNCHANGED <<scanVars, valVars, storeBVars>>

\* ECS.RemoveEntity, its effect on everything but the lock and the threads.
removeEntity(e) ==
    IF id[e] = 0
    THEN /\ ret' = Ret("RemoveEntity", e, id[e], "ErrNoID", <<>>, {})
         /\ UNCHANGED <<id, entities>>
         /\ UNCHANGED <<components, idCounter, metaCache, routines, addLog, preset>>
         /\ UNCHANGED <<scanVars, valVars, storeBVars>>
    ELSE removeLocked(e)

\* ECS.RemoveEntity as one step: the lock is taken and released within it.
RemoveEntity(e) == removeEntity(e) /\ UNCHANGED thrVars

\* ECS.Get: the wrapped entity, or ErrNotFound.
GetResult(ents, ids, i) ==
    LET f == findEntity(ents, ids, i)
    IN  IF f.ok THEN [ent |-> f.ent, err |-> "nil"]
        ELSE [ent |-> 0, err |-> "ErrNotFound"]

Get(i) ==
    LET g == GetResult(entities, id, i)
    IN  /\ ret' = Ret("Get", g.ent, i, g.err, <<>>, {})
        /\ UNCHANGED <<id, components, idCounter, entities, metaCache,
                       routines, addLog, preset>>
        /\ UNCHANGED <<scanVars, valVars, storeBVars>>
        /\ UNCHANGED thrVars

\* ECS.SetRoutineCount
SetRoutineCount(n) ==
    /\ routines' = n
    /\ ret' = Ret("SetRoutineCount", 0, n, "nil", <<>>, {})
    /\ UNCHANGED <<id, components, idCounter, entities, metaCache, addLog, preset>>
    /\ UNCHANGED <<scanVars, valVars, storeBVars>>
    /\ UNCHANGED thrVars

\* BaseDynamicEntity.SetComponent: a component not passed as pointer is
\* rejected; otherwise the entry keyed by its type name is written.  The
\* component passed is a zero-valued literal (Velocity{}).
setComponent(e, c, isPtr) ==
    /\ IsDynamicEntity(e)
    /\ IF ~isPtr
       THEN /\ ret' = RetA("SetComponent", e, 0, "component needs to be passed as pointer",
                        <<>>, {c}, <<isPtr>>)
            /\ UNCHANGED <<components, dynVal, dynPtr>>
       ELSE /\ components' = [components EXCEPT ![e] = @ \cup {c}]
            /\ dynVal' = [dynVal EXCEPT ![e][c] = 0]
            /\ dynPtr' = [dynPtr EXCEPT ![e] = @ \cup {c}]
            /\ ret' = RetA("SetComponent", e, 0, "nil", <<>>, {c}, <<isPtr>>)
    /\ UNCHANGED <<id, idCounter, entities, metaCache, routines, addLog, preset>>
    /\ UNCHANGED <<scanVars, fields, storeBVars>>

\* SetComponent as one step: the entity mutex is taken and released within it.
SetComponent(e, c, isPtr) == setComponent(e, c, isPtr) /\ UNCHANGED thrVars

\* BaseDynamicEntity.RemoveComponent
removeComponent(e, c) ==
    /\ IsDynamicEntity(e)
    /\ IF c \in components[e]
       THEN /\ components' = [components EXCEPT ![e] = @ \ {c}]
            /\ dynVal' = [dynVal EXCEPT ![e][c] = 0]
            /\ dynPtr' = [dynPtr EXCEPT ![e] = @ \ {c}]
            /\ ret' = Ret("RemoveComponent", e, 0, "nil", <<>>, {c})
       ELSE /\ ret' = Ret("RemoveComponent", e, 0, "ErrNotFound", <<>>, {c})
            /\ UNCHANGED <<components, dynVal, dynPtr>>
    /\ UNCHANGED <<id, idCounter, entities, metaCache, routines, addLog, preset>>
    /\ UNCHANGED <<scanVars, fields, storeBVars>>

\* RemoveComponent as one step.
RemoveComponent(e, c) == removeComponent(e, c) /\ UNCHANGED thrVars

\* BaseDynamicEntity.HasComponent
HasComponent_always(comps, e, c) == "nil"

HasComponent(comps, e, c) == IF c \in comps[e] THEN "nil" ELSE "ErrNotFound"

\* Variant of the filter that consults the type descriptor only.
entryMatches_staticOnly(cache, comps, entry, types) ==
    \A t \in types :
        /\ entry.TypeName \in DOMAIN cache
        /\ t \in cache[entry.TypeName]

\* The filter of one entry in ECS.Iterate (the loop over types).
entryMatches(cache, comps, entry, types) ==
    \A t \in types :
        \/ /\ entry.TypeName \in DOMAIN cache
           /\ t \in cache[entry.TypeName]
        \/ /\ IsDynamicEntity(entry.Ent)
           /\ HasComponent(comps, entry.Ent, t) = "nil"

\* Variant of the step without the rounding-up increment.
stepOf_truncated(len, n) == len \div n

\* step := len(ecs.entities)/ecs.routines + 1
stepOf(len, n) == len \div n + 1

\* Indices (0-based) worker w visits: start = step*w, l = step.
workerRange(len, n, w) ==
    LET step == stepOf(len, n)
        start == step * w
    IN  {i \in 0..(len - 1) : i >= start /\ i < start + step}

\* localFoundEnts of worker w: the loop  for i := start; i < start+l &&
\* i < len(ecs.entities); i++  appending the matching entities in index order.
RECURSIVE scanFrom(_, _, _, _, _, _)
scanFrom(cache, comps, ents, types, i, rng) ==
    IF i \in rng
    THEN (IF entryMatches(cache, comps, ents[i + 1], types)
          THEN <<ents[i + 1].Ent>> ELSE <<>>)
         \o scanFrom(cache, comps, ents, types, i + 1, rng)
    ELSE <<>>

localFoundEnts(cache, comps, ents, types, n, w) ==
    scanFrom(cache, comps, ents, types, stepOf(Len(ents), n) * w,
             workerRange(Len(ents), n, w))

\* Orders in which the workers of a set can take the merge lock.
Orders(S) ==
    {o \in [1..Cardinality(S) -> S] :
        \A a, b \in 1..Cardinality(S) : a # b => o[a] # o[b]}

\* foundEnts = append(foundEnts, localFoundEnts...) for the workers in the
\* order they take the merge lock; locals maps a worker to its buffer.
RECURSIVE mergeLocals(_, _, _)
mergeLocals(locals, order, k) ==
    IF k > Len(order) THEN <<>>
    ELSE locals[order[k]] \o mergeLocals(locals, order, k + 1)

\* ECS.Iterate.  With routines = 0 the step division faults, with a
\* negative count WaitGroup.Add faults: the call panics.  Otherwise every
\* worker appends its local buffer under the merge lock, in the order the
\* workers reach it (workers with an empty buffer append nothing).
Iterate(types) ==
    /\ IF routines < 1
       THEN ret' = Ret("Iterate", 0, 0, "panic", <<>>, types)
       ELSE LET n == routines
                locals == [w \in 0..(n - 1) |->
                             localFoundEnts(metaCache, components, entities,
                                            types, n, w)]
                busy == {w \in 0..(n - 1) : locals[w] # <<>>}
            IN  \E order \in Orders(busy) :
                  ret' = Ret("Iterate", 0, 0, "nil",
                             mergeLocals(locals, order, 1), types)
    /\ UNCHANGED <<id, components, idCounter, entities, metaCache, routines,
                   addLog, preset>>
    /\ UNCHANGED <<scanVars, valVars, storeBVars>>
    /\ UNCHANGED thrVars

\* ---------------------------------------------------------- a second store
\* The caller holds a second ECS and passes it the same entity values.  The
\* identifier lives in the entity, so both stores read and write the same one.
LiveEntsB == {entitiesB[k].Ent : k \in 1..Len(entitiesB)}

\* The entity values the caller passes to the second store as well.
SharedEnts == {e \in Ents : e <= 2}

\* ECS.AddEntity on the second store.
AddEntityB(e) ==
    LET fresh == id[e] = 0
        ctr == IF fresh THEN nextId(idCounterB) ELSE idCounterB
        id1 == IF fresh THEN [id EXCEPT ![e] = ctr] ELSE id
        f == findEntity(entitiesB, id1, id1[e])
    IN  /\ fresh => idCounterB < MaxId
        /\ id' = id1
        /\ idCounterB' = ctr
        /\ metaCacheB' = cacheType(metaCacheB, e)
        /\ IF f.ok
           THEN /\ entitiesB' = entitiesB
                /\ ret' = Ret("AddEntityB", e, id1[e], "ErrAlreadyExists", <<>>, {})
           ELSE /\ entitiesB' = Append(entitiesB,
                                   [TypeName |-> getTypeName(e), Ent |-> e])
                /\ ret' = Ret("AddEntityB", e, id1[e], "nil", <<>>, {})
        /\ UNCHANGED <<components, idCounter, entities, metaCache, routines,
                       addLog, preset, scanVars, valVars>>
        /\ UNCHANGED thrVars

\* ECS.RemoveEntity on the second store.
RemoveEntityB(e) ==
    LET f == findEntity(entitiesB, id, id[e])
    IN  /\ IF id[e] = 0
           THEN /\ ret' = Ret("RemoveEntityB", e, id[e], "ErrNoID", <<>>, {})
                /\ UNCHANGED <<id, entitiesB>>
           ELSE IF f.ok
           THEN /\ entitiesB' = removeAt(entitiesB, f.idx)
                /\ id' = [id EXCEPT ![e] = EntityNone]
                /\ ret' = Ret("RemoveEntityB", e, id[e], "nil", <<>>, {})
           ELSE /\ ret' = Ret("RemoveEntityB", e, id[e], "ErrNotFound", <<>>, {})
                /\ UNCHANGED <<id, entitiesB>>
        /\ UNCHANGED <<components, idCounter, entities, metaCache, routines,
                       addLog, preset, scanVars, valVars, idCounterB, metaCacheB>>
        /\ UNCHANGED thrVars

\* ------------------------------------------------------------- IterateID
\* The loop of ECS.IterateID from argument k on: every id findEntity reports
\* as found contributes the entity of the entry returned.
RECURSIVE iterateIDFrom(_, _, _, _)
iterateIDFrom(ents, ids, args, k) ==
    IF k > Len(args) THEN <<>>
    ELSE LET f == findEntity(ents, ids, args[k])
         IN  (IF f.ok THEN <<f.ent>> ELSE <<>>)
               \o iterateIDFrom(ents, ids, args, k + 1)

\* The id lists a caller passes.
IdArgs == UNION {[1..n -> Ids] : n \in 0..MaxArgs}

IterateID(args) ==
    /\ ret' = RetA("IterateID", 0, 0, "nil",
                   iterateIDFrom(entities, id, args, 1), {}, args)
    /\ UNCHANGED <<id, components, idCounter, entities, metaCache, routines,
                   addLog, preset, scanVars, valVars, storeBVars>>
    /\ UNCHANGED thrVars

\* ------------------------------------------------------- IterateSpecific
\* ECS.IterateSpecific starts ecs.routines goroutines over contiguous index
\* ranges.  Each goroutine appends its hits to the slice foundEnts that all
\* of them share, outside the mutex; its own localFoundEnts is never
\* written.  An append is a read of the slice followed by a write of the
\* extended slice, and the scheduler may run other goroutines in between.

\* No IterateSpecific call is between its RLock and its RUnlock.
NoScan == workers = <<>>

TypeNames == {getTypeName(e) : e \in Ents}

\* A goroutine at the top of its loop at index i (0-based).
workerAt(pc, i, tmp) == [pc |-> pc, i |-> i, tmp |-> tmp]

\* The call from ecs.RLock() up to the launch of the goroutines.  wg.Add
\* panics on a negative count and the step division panics on zero; the
\* deferred RUnlock then releases the read lock.
IterateSpecificCall(tn) ==
    /\ NoScan
    /\ canRLock(lock)
    /\ IF routines < 1
       THEN /\ ret' = Ret("IterateSpecific", 0, 0, "panic", <<>>, {tn})
            /\ UNCHANGED <<scanVars, lock>>
       ELSE /\ workers' = [w \in 0..(routines - 1) |->
                             workerAt("scan", stepOf(Len(entities), routines) * w, <<>>)]
            /\ foundEnts' = <<>>
            /\ searchName' = tn
            /\ lock' = [lock EXCEPT !.r = @ + 1]
            /\ UNCHANGED ret
    /\ UNCHANGED <<id, components, idCounter, entities, metaCache, routines,
                   addLog, preset, valVars, storeBVars>>
    /\ UNCHANGED <<threads, entLock>>

\* The loop condition i < start+l && i < len(ecs.entities) of worker w.
inRange(w) ==
    LET step == stepOf(Len(entities), routines)
    IN  /\ workers[w].i < step * w + step
        /\ workers[w].i < Len(entities)

\* One loop test of goroutine w: on a hit it evaluates append's operand (reads
\* foundEnts), on a miss it advances, past its range it goes for the mutex.
WorkerScan(w) ==
    /\ w \in DOMAIN workers
    /\ workers[w].pc = "scan"
    /\ workers' = [workers EXCEPT ![w] =
          IF inRange(w)
          THEN IF entities[workers[w].i + 1].TypeName = searchName
               THEN workerAt("append", workers[w].i, foundEnts)
               ELSE workerAt("scan", workers[w].i + 1, <<>>)
          ELSE workerAt("lock", workers[w].i, <<>>)]
    /\ UNCHANGED <<id, components, idCounter, entities, metaCache, routines, ret,
                   addLog, preset, foundEnts, searchName, valVars, storeBVars>>
    /\ UNCHANGED thrVars

\* The store of foundEnts = append(foundEnts, wrap) in the loop body.
WorkerAppend(w) ==
    /\ w \in DOMAIN workers
    /\ workers[w].pc = "append"
    /\ foundEnts' = Append(workers[w].tmp, entities[workers[w].i + 1].Ent)
    /\ workers' = [workers EXCEPT ![w] = workerAt("scan", workers[w].i + 1, <<>>)]
    /\ UNCHANGED <<id, components, idCounter, entities, metaCache, routines, ret,
                   addLog, preset, searchName, valVars, storeBVars>>
    /\ UNCHANGED thrVars

\* mtx.Lock() and the read of foundEnts in append(foundEnts, localFoundEnts...).
WorkerLock(w) ==
    /\ w \in DOMAIN workers
    /\ workers[w].pc = "lock"
    /\ \A v \in DOMAIN workers : workers[v].pc # "unlock"
    /\ workers' = [workers EXCEPT ![w] = workerAt("unlock", workers[w].i, foundEnts)]
    /\ UNCHANGED <<id, components, idCounter, entities, metaCache, routines, ret,
                   addLog, preset, foundEnts, searchName, valVars, storeBVars>>
    /\ UNCHANGED thrVars

\* The store of the merge (localFoundEnts is empty), mtx.Unlock(), wg.Done().
WorkerUnlock(w) ==
    /\ w \in DOMAIN workers
    /\ workers[w].pc = "unlock"
    /\ foundEnts' = workers[w].tmp
    /\ workers' = [workers EXCEPT ![w] = workerAt("done", workers[w].i, <<>>)]
    /\ UNCHANGED <<id, components, idCounter, entities, metaCache, routines, ret,
                   addLog, preset, searchName, valVars, storeBVars>>
    /\ UNCHANGED thrVars

\* wg.Wait() returns once every goroutine is done; the call returns foundEnts
\* and the deferred RUnlock releases the read lock.
IterateSpecificReturn ==
    /\ ~NoScan
    /\ \A w \in DOMAIN workers : workers[w].pc = "done"
    /\ ret' = Ret("IterateSpecific", 0, 0, "nil", foundEnts, {searchName})
    /\ workers' = <<>>
    /\ foundEnts' = <<>>
    /\ searchName' = ""
    /\ lock' = [lock EXCEPT !.r = @ - 1]
    /\ UNCHANGED <<id, components, idCounter, entities, metaCache, routines,
                   addLog, preset, valVars, storeBVars>>
    /\ UNCHANGED <<threads, entLock>>

\* ------------------------------------------- calls on the component table
\* u.HasComponent(C{}) on a dynamic entity.
callHasComponent(e, c) ==
    /\ IsDynamicEntity(e)
    /\ ret' = Ret("HasComponent", e, 0, HasComponent(components, e, c), <<>>, {c})
    /\ UNCHANGED <<id, components, idCounter, entities, metaCache, routines,
                   addLog, preset, scanVars, valVars, storeBVars>>

\* HasComponent as one step.
CallHasComponent(e, c) == callHasComponent(e, c) /\ UNCHANGED thrVars

\* BaseDynamicEntity.GetComponent(t string): the stored entry or ErrNotFound.
GetComponent(comps, e, c) == IF c \in comps[e] THEN "nil" ELSE "ErrNotFound"

\* u.GetComponent("C") on a dynamic entity.
callGetComponent(e, c) ==
    /\ IsDynamicEntity(e)
    /\ ret' = Ret("GetComponent", e, 0, GetComponent(components, e, c),
                  IF c \in components[e] THEN <<dynVal[e][c]>> ELSE <<>>, {c})
    /\ UNCHANGED <<id, components, idCounter, entities, metaCache, routines,
                   addLog, preset, scanVars, valVars, storeBVars>>

\* GetComponent as one step.
CallGetComponent(e, c) == callGetComponent(e, c) /\ UNCHANGED thrVars

\* ------------------------------------------------------------------ View
\* A callback passed to View or ViewSpecific: whether it is a function at
\* all, its parameter list, whether it changes every component it is handed
\* (n.Value += " CHANGED") or only reads, and whether it returns an error.  A
\* parameter is the name of the struct a pointer parameter points to, "int"
\* for a pointer to a non-struct, or "nonptr" for a parameter that is no
\* pointer.
Callback(kind, params, writes, err) ==
    [kind |-> kind, params |-> params, writes |-> writes, err |-> err]

ParamLists(S) ==
    {<<a>> : a \in S} \cup {p \in {<<a, b>> : a, b \in S} : p[1] # p[2]}

\* The components callbacks ask for: Name is a field of both entity types,
\* Velocity is only ever a table entry.
ViewTypes == {"Name", "Velocity"}

\* func(*Name), func(*Name, *Velocity) error, ...
WellFormed ==
    {Callback("func", ps, wr, err) :
        ps \in ParamLists(ViewTypes), wr \in BOOLEAN, err \in BOOLEAN}

\* Callbacks that only read and return nothing.
Readers == {cb \in WellFormed : ~cb.writes /\ ~cb.err}

\* A non-function, func(Pos), func(*int), func(*Name, Pos).
Malformed ==
    {Callback("value", <<>>, FALSE, FALSE)} \cup
    {Callback("func", ps, FALSE, FALSE) :
        ps \in {<<"nonptr">>, <<"int">>, <<"Name", "nonptr">>}}

\* fetchPtrOfType(ent, compName): the address of the struct field of that
\* name, or an error when the struct has no such field.
fetchPtrOfType(e, c) ==
    IF c \in StructFields(getTypeName(e)) THEN "nil" ELSE "ErrNotFound"

\* What a pointer to component c of entity e points at.
valueOf(flds, dyn, e, c) ==
    IF c \in StructFields(getTypeName(e)) THEN flds[e][c] ELSE dyn[e][c]

\* The argument-gathering loop of View from parameter k on.  The result is
\* the error that ends the loop ("nil" when it runs to the end) and the
\* callInstances appended so far.  hasContinue tells the revision: without
\* the continue after the table hit the loop body falls through to the
\* second append, of the nil ptr of the failed field lookup.
RECURSIVE callInstances(_, _, _, _, _)
callInstances(comps, e, params, k, hasContinue) ==
    IF k > Len(params) THEN [err |-> "nil", args |-> <<>>]
    ELSE IF params[k] = "nonptr" THEN [err |-> "panic", args |-> <<>>]
    ELSE IF fetchPtrOfType(e, params[k]) = "nil"
         THEN LET rest == callInstances(comps, e, params, k + 1, hasContinue)
              IN  [err |-> rest.err, args |-> <<params[k]>> \o rest.args]
    ELSE IF IsDynamicEntity(e) /\ GetComponent(comps, e, params[k]) = "nil"
         THEN LET rest == callInstances(comps, e, params, k + 1, hasContinue)
              IN  [err |-> rest.err,
                   args |-> (IF hasContinue THEN <<params[k]>>
                                            ELSE <<params[k], "nil">>) \o rest.args]
         ELSE [err |-> "ErrNotFound", args |-> <<>>]

\* The change a writing callback makes to the contents it is handed.
changed(v) == (v + 1) % (MaxVal + 1)

\* The stores of a callback through the pointers it was handed: every struct
\* field, and every table entry, named by a parameter is changed.
storeFields(flds, e, params, writes) ==
    IF ~writes THEN flds
    ELSE [flds EXCEPT ![e] = [c \in DOMAIN @ |->
            IF c \in Range(params) THEN changed(@[c]) ELSE @[c]]]

storeTable_dropped(dyn, e, params, writes) == dyn

storeTable(dyn, e, params, writes) ==
    IF ~writes THEN dyn
    ELSE [dyn EXCEPT ![e] = [c \in DOMAIN @ |->
            IF c \in Range(params) /\ c \notin StructFields(getTypeName(e))
            THEN changed(@[c]) ELSE @[c]]]

\* The values the callback finds behind its arguments when it is entered.
seenBy(flds, dyn, e, params) ==
    [k \in 1..Len(params) |-> valueOf(flds, dyn, e, params[k])]

\* EntityWrap.View on a wrap of entity e.  calls lists the invocations of the
\* callback, each as the values behind its arguments.  reflect's Call panics
\* unless it gets exactly one argument per parameter.
viewDirect(e, cb, hasContinue) ==
    LET ci == callInstances(components, e, cb.params, 1, hasContinue)
        same(err) == [err |-> err, calls |-> <<>>, fields |-> fields, dynVal |-> dynVal]
    IN  IF cb.kind # "func" THEN same("fn not function")
        ELSE IF ci.err # "nil" THEN same(ci.err)
        ELSE IF ci.args # cb.params THEN same("panic")
        ELSE [err |-> IF cb.err THEN "callback error" ELSE "nil",
              calls |-> <<seenBy(fields, dynVal, e, cb.params)>>,
              fields |-> storeFields(fields, e, cb.params, cb.writes),
              dynVal |-> storeTable(dynVal, e, cb.params, cb.writes)]

\* ew.View(fn) on a wrap from Access or from an iterator.
View(e, cb) ==
    \E v \in {viewDirect(e, cb, TRUE)} :
        /\ fields' = v.fields
        /\ dynVal' = v.dynVal
        /\ ret' = RetA("View", e, id[e], v.err, v.calls, {}, cb)
        /\ UNCHANGED <<id, components, idCounter, entities, metaCache, routines,
                       addLog, preset, scanVars, dynPtr, storeBVars>>
        /\ UNCHANGED thrVars

\* The same call in the revision whose loop lacks the continue.
ViewNoContinue(e, cb) ==
    \E v \in {viewDirect(e, cb, FALSE)} :
        /\ fields' = v.fields
        /\ dynVal' = v.dynVal
        /\ ret' = RetA("ViewNoContinue", e, id[e], v.err, v.calls, {}, cb)
        /\ UNCHANGED <<id, components, idCounter, entities, metaCache, routines,
                       addLog, preset, scanVars, dynPtr, storeBVars>>
        /\ UNCHANGED thrVars

\* ecs.MustGet(i).View(fn): MustGet drops Get's error and returns the nil
\* wrap on a miss, on which View dereferences nil.
MustGetView(i, cb) ==
    \E g \in {GetResult(entities, id, i)} :
        /\ IF g.err # "nil"
           THEN /\ ret' = RetA("MustGetView", 0, i, "panic", <<>>, {}, cb)
                /\ UNCHANGED <<fields, dynVal>>
           ELSE \E v \in {viewDirect(g.ent, cb, TRUE)} :
                /\ fields' = v.fields
                /\ dynVal' = v.dynVal
                /\ ret' = RetA("MustGetView", g.ent, i, v.err, v.calls, {}, cb)
        /\ UNCHANGED <<id, components, idCounter, entities, metaCache, routines,
                       addLog, preset, scanVars, dynPtr, storeBVars>>
        /\ UNCHANGED thrVars

\* Callbacks for ViewSpecific: func(*Unit), func(*DynamicUnit) error, ...
SpecificCallbacks ==
    {Callback("func", <<tn>>, wr, err) :
        tn \in TypeNames, wr \in BOOLEAN, err \in BOOLEAN}

\* EntityWrap.ViewSpecific: the callback is handed the entity itself and, if
\* it writes, changes its Name field.  Call panics when the parameter is not
\* a pointer to the entity's own type.
ViewSpecific(e, cb) ==
    LET called == cb.kind = "func" /\ Len(cb.params) = 1
                    /\ cb.params[1] = getTypeName(e)
        err == IF cb.kind # "func" THEN "fn not function"
               ELSE IF Len(cb.params) # 1 THEN "fn needs a single argument"
               ELSE IF ~called THEN "panic"
               ELSE IF cb.err THEN "callback error" ELSE "nil"
    IN  /\ fields' = IF called THEN storeFields(fields, e, <<"Name">>, cb.writes)
                               ELSE fields
        /\ ret' = RetA("ViewSpecific", e, id[e], err,
                       IF called THEN <<<<fields[e]["Name"]>>>> ELSE <<>>, {}, cb)
        /\ UNCHANGED <<id, components, idCounter, entities, metaCache, routines,
                       addLog, preset, scanVars, dynVal, dynPtr, storeBVars>>
        /\ UNCHANGED thrVars

\* ------------------------------------------- View, copy-in/copy-out revision
\* BaseDynamicEntity.SetComponent of that revision stores what it is passed,
\* a value or a pointer.
SetComponentAny(e, c, isPtr) ==
    /\ IsDynamicEntity(e)
    /\ components' = [components EXCEPT ![e] = @ \cup {c}]
    /\ dynVal' = [dynVal EXCEPT ![e][c] = 0]
    /\ dynPtr' = [dynPtr EXCEPT ![e] = IF isPtr THEN @ \cup {c} ELSE @ \ {c}]
    /\ ret' = RetA("SetComponentAny", e, 0, "nil", <<>>, {c}, <<isPtr>>)
    /\ UNCHANGED <<id, idCounter, entities, metaCache, routines, addLog, preset,
                   scanVars, fields, storeBVars>>
    /\ UNCHANGED thrVars

\* BaseDynamicEntity.GetComponent(out) of that revision, called by the user
\* with out = &C{}: the stored entry is assigned to *out, and reflect panics
\* when the entry is a pointer (a *C is not assignable to a C).
GetComponentOut(e, c) ==
    /\ IsDynamicEntity(e)
    /\ ret' = IF c \notin components[e]
              THEN Ret("GetComponentOut", e, 0, "ErrNotFound", <<>>, {c})
              ELSE IF c \in dynPtr[e]
              THEN Ret("GetComponentOut", e, 0, "panic", <<>>, {c})
              ELSE Ret("GetComponentOut", e, 0, "nil", <<dynVal[e][c]>>, {c})
    /\ UNCHANGED <<id, components, idCounter, entities, metaCache, routines,
                   addLog, preset, scanVars, valVars, storeBVars, thrVars>>

\* findType(s, out): copies the struct field named like out's type to out.
findType(e, c) ==
    IF c \in StructFields(getTypeName(e)) THEN "nil" ELSE "ErrNotFound"

\* The copy-in loop from parameter k on: the error that ends it and the
\* copies made.  GetComponent(out) sets out's target to the stored entry and
\* reflect panics when the entry is a pointer.
RECURSIVE copyIn(_, _, _)
copyIn(e, params, k) ==
    IF k > Len(params) THEN [err |-> "nil", vals |-> <<>>]
    ELSE IF params[k] = "nonptr" THEN [err |-> "panic", vals |-> <<>>]
    ELSE IF findType(e, params[k]) = "nil"
         THEN LET rest == copyIn(e, params, k + 1)
              IN  [err |-> rest.err, vals |-> <<fields[e][params[k]]>> \o rest.vals]
    ELSE IF IsDynamicEntity(e) /\ HasComponent(components, e, params[k]) = "nil"
         THEN IF params[k] \in dynPtr[e]
              THEN [err |-> "panic", vals |-> <<>>]
              ELSE LET rest == copyIn(e, params, k + 1)
                   IN  [err |-> rest.err,
                        vals |-> <<dynVal[e][params[k]]>> \o rest.vals]
         ELSE [err |-> "ErrNotFound", vals |-> <<>>]

\* The copies after the callback ran.
copiesAfter(vals, writes) ==
    [k \in 1..Len(vals) |-> IF writes THEN changed(vals[k]) ELSE vals[k]]

\* View reaches its write-back loop unless the callback returned an error.
writesBack_always(cbErr) == TRUE

writesBack(cbErr) == ~cbErr

\* setType(s, in) for every copy that names a struct field.
setTypeAll(flds, e, params, vals) ==
    [flds EXCEPT ![e] = [c \in DOMAIN @ |->
        IF \E k \in 1..Len(params) : params[k] = c
        THEN vals[CHOOSE k \in 1..Len(params) :
                    /\ params[k] = c
                    /\ \A j \in (k + 1)..Len(params) : params[j] # c]
        ELSE @[c]]]

\* SetComponent(copy) for every other copy: the entry becomes the pointer.
setTableAll(dyn, e, params, vals) ==
    [dyn EXCEPT ![e] = [c \in DOMAIN @ |->
        IF c \notin StructFields(getTypeName(e))
             /\ \E k \in 1..Len(params) : params[k] = c
        THEN vals[CHOOSE k \in 1..Len(params) :
                    /\ params[k] = c
                    /\ \A j \in (k + 1)..Len(params) : params[j] # c]
        ELSE @[c]]]

\* EntityWrap.View of the copy-in/copy-out revision.
viewCopy(e, cb) ==
    LET ci == copyIn(e, cb.params, 1)
        out == copiesAfter(ci.vals, cb.writes)
        same(err, calls) ==
            [err |-> err, calls |-> calls, fields |-> fields,
             dynVal |-> dynVal, dynPtr |-> dynPtr]
    IN  IF cb.kind # "func" THEN same("fn not function", <<>>)
        ELSE IF ci.err # "nil" THEN same(ci.err, <<>>)
        ELSE IF ~writesBack(cb.err) THEN same("callback error", <<ci.vals>>)
        ELSE [err |-> IF cb.err THEN "callback error" ELSE "nil",
              calls |-> <<ci.vals>>,
              fields |-> setTypeAll(fields, e, cb.params, out),
              dynVal |-> setTableAll(dynVal, e, cb.params, out),
              dynPtr |-> [dynPtr EXCEPT ![e] =
                            @ \cup (Range(cb.params) \ StructFields(getTypeName(e)))]]

ViewCopy(e, cb) ==
    \E v \in {viewCopy(e, cb)} :
        /\ fields' = v.fields
        /\ dynVal' = v.dynVal
        /\ dynPtr' = v.dynPtr
        /\ ret' = RetA("ViewCopy", e, id[e], v.err, v.calls, {}, cb)
        /\ UNCHANGED <<id, components, idCounter, entities, metaCache, routines,
                       addLog, preset, scanVars, storeBVars>>
        /\ UNCHANGED thrVars

\* ------------------------------------------------- callers in parallel
\* Entities some thread is in the middle of a call on.
busyEnts == {threads[t].ent : t \in Threads} \ {0}

\* ECS.AddEntity up to its ecs.Lock(): an unset identity is replaced by
\* ecs.nextId(), which takes and releases the store lock by itself.
AddBegin(t, e) ==
    LET fresh == id[e] = 0
        ctr == IF fresh THEN nextId(idCounter) ELSE idCounter
    IN  /\ threads[t] = Idle
        /\ e \notin busyEnts
        /\ fresh => idCounter < MaxId /\ canLock(lock)
        /\ id' = IF fresh THEN [id EXCEPT ![e] = ctr] ELSE id
        /\ idCounter' = ctr
        /\ addLog' = IF fresh THEN Append(addLog, ctr) ELSE addLog
        /\ threads' = [threads EXCEPT ![t] = Thread("add", e, fresh)]
        /\ UNCHANGED <<components, entities, metaCache, routines, ret, preset>>
        /\ UNCHANGED <<scanVars, valVars, storeBVars, lock, entLock>>

\* ECS.AddEntity from ecs.Lock() to its return.
AddInsert(t) ==
    LET e == threads[t].ent
        f == findEntity(entities, id, id[e])
    IN  /\ threads[t].pc = "add"
        /\ canLock(lock)
        /\ metaCache' = cacheType(metaCache, e)
        /\ IF f.ok
           THEN /\ entities' = entities
                /\ ret' = RetA("AddEntity", e, id[e], "ErrAlreadyExists", <<>>, {},
                                <<threads[t].fresh>>)
           ELSE /\ entities' = Append(entities,
                                  [TypeName |-> getTypeName(e), Ent |-> e])
                /\ ret' = RetA("AddEntity", e, id[e], "nil", <<>>, {},
                                <<threads[t].fresh>>)
        /\ threads' = [threads EXCEPT ![t] = Idle]
        /\ UNCHANGED <<id, components, idCounter, routines, addLog, preset>>
        /\ UNCHANGED <<scanVars, valVars, storeBVars, lock, entLock>>

\* A call that takes ecs.Lock() on entry and releases it on return, made on
\* an entity no other thread is working on.
Locked(e, call) == canLock(lock) /\ e \notin busyEnts /\ call

\* EntityWrap.View / ViewSpecific up to the call of fn: ew.parent.RLock() is
\* taken and, being released by a deferred RUnlock, held while fn runs.
ViewBegin(t, e) ==
    /\ threads[t] = Idle
    /\ e \notin busyEnts
    /\ canRLock(lock)
    /\ lock' = [lock EXCEPT !.r = @ + 1]
    /\ threads' = [threads EXCEPT ![t] = Thread("callback", e, FALSE)]
    /\ UNCHANGED <<id, components, idCounter, entities, metaCache, routines, ret,
                   addLog, preset, scanVars, valVars, storeBVars, entLock>>

\* fn calls ecs.Get(i): RLock, lookup, RUnlock.
NestedGet(t, i) == threads[t].pc = "callback" /\ canRLock(lock) /\ Get(i)

\* A thread calls ecs.RemoveEntity(e): an unset identity returns ErrNoID at
\* once, otherwise the thread announces itself as writer in ecs.Lock().  An
\* idle thread removes any entity, also one another thread is working on;
\* fn removes the entity it views.
LockCall(t, e) ==
    /\ \/ threads[t] = Idle
       \/ threads[t].pc = "callback" /\ threads[t].ent = e
    /\ IF id[e] = 0
       THEN /\ ret' = Ret("RemoveEntity", e, id[e], "ErrNoID", <<>>, {})
            /\ UNCHANGED thrVars
       ELSE /\ lock' = [lock EXCEPT !.ww = @ + 1]
            /\ threads' = [threads EXCEPT ![t] =
                  Thread(IF threads[t] = Idle THEN "lockwait" ELSE "fnlockwait",
                         e, FALSE)]
            /\ UNCHANGED <<ret, entLock>>
    /\ UNCHANGED <<id, components, idCounter, entities, metaCache, routines,
                   addLog, preset, scanVars, valVars, storeBVars>>

\* ecs.Lock() returns to a waiting thread, which removes and unlocks.
LockEnter(t) ==
    /\ threads[t].pc \in {"lockwait", "fnlockwait"}
    /\ canLock(lock)
    /\ removeLocked(threads[t].ent)
    /\ lock' = [lock EXCEPT !.ww = @ - 1]
    /\ threads' = [threads EXCEPT ![t] =
          IF threads[t].pc = "lockwait" THEN Idle
          ELSE Thread("callback", threads[t].ent, FALSE)]
    /\ UNCHANGED entLock

\* fn returns, View returns and the deferred RUnlock runs.
ViewEnd(t) ==
    /\ threads[t].pc = "callback"
    /\ lock' = [lock EXCEPT !.r = @ - 1]
    /\ threads' = [threads EXCEPT ![t] = Idle]
    /\ ret' = Ret("View", threads[t].ent, id[threads[t].ent], "nil", <<>>, {})
    /\ UNCHANGED <<id, components, idCounter, entities, metaCache, routines,
                   addLog, preset, scanVars, valVars, storeBVars, entLock>>

\* ecs.Access(ent).Valid(): the wrap is made without a lookup and Valid
\* compares the identifier of the wrapped entity with EntityNone.
Valid(e) ==
    /\ ret' = Ret("Valid", e, id[e], "nil", <<id[e] # EntityNone>>, {})
    /\ UNCHANGED <<id, components, idCounter, entities, metaCache, routines,
                   addLog, preset, scanVars, valVars, storeBVars, thrVars>>

\* ecs.MustGet(i).Valid(): MustGet drops the error of Get and returns its
\* wrap, a nil *EntityWrap on a miss; Valid on nil dereferences it.
MustGetValid(i) ==
    LET g == GetResult(entities, id, i)
    IN  /\ ret' = IF g.err # "nil"
                  THEN Ret("MustGetValid", 0, i, "panic", <<>>, {})
                  ELSE Ret("MustGetValid", g.ent, i, "nil",
                           <<id[g.ent] # EntityNone>>, {})
        /\ UNCHANGED <<id, components, idCounter, entities, metaCache, routines,
                       addLog, preset, scanVars, valVars, storeBVars, thrVars>>

\* ------------------------------------------------------------ Unmarshal
\* A decoded snapshot: a list of serializedEntity.  Ent names the entity
\* object that reflect.New creates for the element, of type Type; the
\* elements carry zero-valued components and no dynamic ones.
serializedEntity(e, i) == [ID |-> i, Type |-> getTypeName(e), Ent |-> e]

\* Snapshots of at most MaxImport entities with distinct identifiers, in
\* any order; the objects created for them are those of SharedEnts.
Snapshots ==
    LET se == {serializedEntity(e, i) : e \in SharedEnts, i \in 1..MaxId}
    IN  {ses \in UNION {[1..n -> se] : n \in 0..MaxImport} :
            \A j, k \in DOMAIN ses :
                j # k => ses[j].Ent # ses[k].Ent /\ ses[j].ID # ses[k].ID}

\* The elements of ses whose type is in the cache, in list order.
RECURSIVE known(_, _)
known(cache, ses) ==
    IF ses = <<>> THEN <<>>
    ELSE IF Head(ses).Type \in DOMAIN cache
         THEN <<Head(ses)>> \o known(cache, Tail(ses))
         ELSE known(cache, Tail(ses))

\* ecs.idCounter after the import: one past the identifier of the last entry.
counterAfter(imp) ==
    IF Len(imp) > 0 THEN imp[Len(imp)].ID + 1 ELSE 0

\* ECS.Unmarshal
Unmarshal(ses) ==
    LET imp == known(metaCache, ses)
        new == {imp[k].Ent : k \in DOMAIN imp}
        idOf(e) == (CHOOSE k \in DOMAIN imp : imp[k].Ent = e)
    IN  /\ entities' = [k \in DOMAIN imp |->
                           [TypeName |-> imp[k].Type, Ent |-> imp[k].Ent]]
        /\ id' = [e \in Ents |-> IF e \in new THEN imp[idOf(e)].ID ELSE id[e]]
        /\ idCounter' = counterAfter(imp)
        /\ components' = [e \in Ents |-> IF e \in new THEN {} ELSE components[e]]
        /\ fields' = [e \in Ents |->
              IF e \in new THEN [c \in StructFields(getTypeName(e)) |-> 0]
              ELSE fields[e]]
        /\ dynVal' = [e \in Ents |->
              IF e \in new THEN [c \in DynTypes |-> 0] ELSE dynVal[e]]
        /\ dynPtr' = [e \in Ents |-> IF e \in new THEN {} ELSE dynPtr[e]]
        /\ ret' = Ret("Unmarshal", 0, 0, "nil", <<>>, {})
        /\ addLog' = <<>>
        /\ UNCHANGED <<metaCache, routines, preset>>
        /\ UNCHANGED <<scanVars, storeBVars, thrVars>>

\* ------------------------------------------- store lock and entity mutexes
\* b.Lock() of the dynamic component table of e returns at once iff nobody
\* holds the mutex.
canLockEnt(el, e) == el[e] = NoHolder

\* b.Lock() by holder h.
acquire(el, e, h) == [el EXCEPT ![e] = h]

\* Variant of the deferred b.Unlock() that leaves the mutex held.
release_kept(el, e) == el

\* The deferred b.Unlock().
release(el, e) == [el EXCEPT ![e] = NoHolder]

\* BaseDynamicEntity.GetComponents, its effect on everything but the locks:
\* the entries of the table, in map order.
callGetComponents(e) ==
    /\ IsDynamicEntity(e)
    /\ ret' = Ret("GetComponents", e, 0, "nil", <<>>, components[e])
    /\ UNCHANGED <<id, components, idCounter, entities, metaCache, routines,
                   addLog, preset, scanVars, valVars, storeBVars>>

\* A thread enters a call on the component table of e: b.Lock().
TableLock(t, e) ==
    /\ threads[t] = Idle
    /\ IsDynamicEntity(e)
    /\ canLockEnt(entLock, e)
    /\ entLock' = acquire(entLock, e, t)
    /\ threads' = [threads EXCEPT ![t] = Thread("table", e, FALSE)]
    /\ UNCHANGED <<id, components, idCounter, entities, metaCache, routines, ret,
                   addLog, preset, scanVars, valVars, storeBVars, lock>>

\* The body of the table call and its deferred b.Unlock().
TableDone(t, call) ==
    /\ threads[t].pc = "table"
    /\ call
    /\ entLock' = release(entLock, threads[t].ent)
    /\ threads' = [threads EXCEPT ![t] = Idle]
    /\ UNCHANGED lock

\* ECS.Marshal up to its loop: ecs.Lock().  The thread's ent field counts the
\* entries already encoded.
MarshalBegin(t) ==
    /\ threads[t] = Idle
    /\ canLock(lock)
    /\ lock' = [lock EXCEPT !.w = TRUE]
    /\ threads' = [threads EXCEPT ![t] = Thread("marshal", 0, FALSE)]
    /\ UNCHANGED <<id, components, idCounter, entities, metaCache, routines, ret,
                   addLog, preset, scanVars, valVars, storeBVars, entLock>>

\* One entry of the loop of Marshal: the struct fields are read from the
\* entity; a dynamic entity is asked with dyn.GetComponents, which first takes
\* the mutex of the entity.
MarshalEntry(t) ==
    /\ threads[t].pc = "marshal"
    /\ threads[t].ent < Len(entities)
    /\ LET e == entities[threads[t].ent + 1].Ent
       IN  IF IsDynamicEntity(e)
           THEN /\ canLockEnt(entLock, e)
                /\ entLock' = acquire(entLock, e, t)
                /\ threads' = [threads EXCEPT ![t] =
                      Thread("marshalget", threads[t].ent, FALSE)]
           ELSE /\ threads' = [threads EXCEPT ![t] =
                      Thread("marshal", threads[t].ent + 1, FALSE)]
                /\ UNCHANGED entLock
    /\ UNCHANGED <<id, components, idCounter, entities, metaCache, routines, ret,
                   addLog, preset, scanVars, valVars, storeBVars, lock>>

\* dyn.GetComponents returns and its deferred b.Unlock() runs.
MarshalGot(t) ==
    /\ threads[t].pc = "marshalget"
    /\ entLock' = release(entLock, entities[threads[t].ent + 1].Ent)
    /\ threads' = [threads EXCEPT ![t] =
          Thread("marshal", threads[t].ent + 1, FALSE)]
    /\ UNCHANGED <<id, components, idCounter, entities, metaCache, routines, ret,
                   addLog, preset, scanVars, valVars, storeBVars, lock>>

\* The loop of Marshal is over: the list is encoded (res holds the encoded
\* identifiers in order) and the deferred ecs.Unlock() runs.
MarshalEnd(t) ==
    /\ threads[t].pc = "marshal"
    /\ threads[t].ent = Len(entities)
    /\ ret' = Ret("Marshal", 0, 0, "nil",
                  [k \in 1..Len(entities) |-> id[entities[k].Ent]], {})
    /\ lock' = [lock EXCEPT !.w = FALSE]
    /\ threads' = [threads EXCEPT ![t] = Idle]
    /\ UNCHANGED <<id, components, idCounter, entities, metaCache, routines,
                   addLog, preset, scanVars, valVars, storeBVars, entLock>>

\* ECS.Iterate for one requested type, from ecs.RLock() up to the launch of
\* the goroutines; a count below 1 panics and the deferred RUnlock runs.
IterateCall(c) ==
    /\ NoScan
    /\ canRLock(lock)
    /\ IF routines < 1
       THEN /\ ret' = Ret("Iterate", 0, 0, "panic", <<>>, {c})
            /\ UNCHANGED <<scanVars, lock>>
       ELSE /\ workers' = [w \in 0..(routines - 1) |->
                             workerAt("scan", stepOf(Len(entities), routines) * w, <<>>)]
            /\ foundEnts' = <<>>
            /\ searchName' = c
            /\ lock' = [lock EXCEPT !.r = @ + 1]
            /\ UNCHANGED ret
    /\ UNCHANGED <<id, components, idCounter, entities, metaCache, routines,
                   addLog, preset, valVars, storeBVars>>
    /\ UNCHANGED <<threads, entLock>>

\* One loop test of goroutine w of Iterate; tmp is its localFoundEnts.  A
\* type found in the descriptor is a hit; otherwise a dynamic entity is asked
\* with dyn.HasComponent, which first takes the mutex of the entity.
IterWorkerScan(w) ==
    /\ w \in DOMAIN workers
    /\ workers[w].pc = "scan"
    /\ IF ~inRange(w)
       THEN /\ workers' = [workers EXCEPT ![w] =
                             workerAt("merge", workers[w].i, workers[w].tmp)]
            /\ UNCHANGED entLock
       ELSE LET entry == entities[workers[w].i + 1]
            IN  IF /\ entry.TypeName \in DOMAIN metaCache
                   /\ searchName \in metaCache[entry.TypeName]
                THEN /\ workers' = [workers EXCEPT ![w] =
                           workerAt("scan", workers[w].i + 1,
                                    Append(workers[w].tmp, entry.Ent))]
                     /\ UNCHANGED entLock
                ELSE IF IsDynamicEntity(entry.Ent)
                THEN /\ canLockEnt(entLock, entry.Ent)
                     /\ entLock' = acquire(entLock, entry.Ent, workerHolder(w))
                     /\ workers' = [workers EXCEPT ![w] =
                           workerAt("has", workers[w].i, workers[w].tmp)]
                ELSE /\ workers' = [workers EXCEPT ![w] =
                           workerAt("scan", workers[w].i + 1, workers[w].tmp)]
                     /\ UNCHANGED entLock
    /\ UNCHANGED <<id, components, idCounter, entities, metaCache, routines, ret,
                   addLog, preset, foundEnts, searchName, valVars, storeBVars>>
    /\ UNCHANGED <<lock, threads>>

\* The body of dyn.HasComponent for goroutine w and its deferred b.Unlock().
IterWorkerHas(w) ==
    /\ w \in DOMAIN workers
    /\ workers[w].pc = "has"
    /\ LET e == entities[workers[w].i + 1].Ent
       IN  /\ entLock' = release(entLock, e)
           /\ workers' = [workers EXCEPT ![w] =
                 workerAt("scan", workers[w].i + 1,
                          IF HasComponent(components, e, searchName) = "nil"
                          THEN Append(workers[w].tmp, e) ELSE workers[w].tmp)]
    /\ UNCHANGED <<id, components, idCounter, entities, metaCache, routines, ret,
                   addLog, preset, foundEnts, searchName, valVars, storeBVars>>
    /\ UNCHANGED <<lock, threads>>

\* mtx.Lock(); foundEnts = append(foundEnts, localFoundEnts...); mtx.Unlock();
\* wg.Done()
IterWorkerMerge(w) ==
    /\ w \in DOMAIN workers
    /\ workers[w].pc = "merge"
    /\ foundEnts' = foundEnts \o workers[w].tmp
    /\ workers' = [workers EXCEPT ![w] = workerAt("done", workers[w].i, <<>>)]
    /\ UNCHANGED <<id, components, idCounter, entities, metaCache, routines, ret,
                   addLog, preset, searchName, valVars, storeBVars>>
    /\ UNCHANGED thrVars

\* wg.Wait() returns, Iterate returns foundEnts, the deferred RUnlock runs.
IterateReturn ==
    /\ ~NoScan
    /\ \A w \in DOMAIN workers : workers[w].pc = "done"
    /\ ret' = Ret("Iterate", 0, 0, "nil", foundEnts, {searchName})
    /\ workers' = <<>>
    /\ foundEnts' = <<>>
    /\ searchName' = ""
    /\ lock' = [lock EXCEPT !.r = @ - 1]
    /\ UNCHANGED <<id, components, idCounter, entities, metaCache, routines,
                   addLog, preset, valVars, storeBVars>>
    /\ UNCHANGED <<threads, entLock>>

\* ECS.RegisterEntity: cacheType without taking the store lock.
RegisterEntity(e) ==
    /\ metaCache' = cacheType(metaCache, e)
    /\ ret' = Ret("RegisterEntity", e, id[e], "nil", <<>>, {})
    /\ UNCHANGED <<id, components, idCounter, entities, routines, addLog, preset>>
    /\ UNCHANGED <<scanVars, valVars, storeBVars, thrVars>>

\* Threads adding and removing entities concurrently.
NextAdd ==
    \/ \E t \in Threads, e \in Ents : AddBegin(t, e)
    \/ \E t \in Threads : AddInsert(t)
    \/ \E e \in Ents : Locked(e, RemoveEntity(e))

\* Identity and storage: the calls that read or write identifiers, the
\* allocator and the entity collection.
NextStore ==
    \/ \E e \in Ents, i \in 1..MaxId : SetID(e, i)
    \/ \E e \in Ents : AddEntity(e)
    \/ \E e \in Ents : RemoveEntity(e)
    \/ \E i \in Ids : Get(i)

\* Scans: entities with allocator-assigned identifiers, their dynamic
\* component tables, the worker count and ECS.Iterate.
NextScan ==
    \/ \E e \in Ents : AddEntity(e)
    \/ \E e \in Ents : RemoveEntity(e)
    \/ \E n \in (-1)..MaxRoutines : SetRoutineCount(n)
    \/ \E e \in Ents, c \in DynTypes, isPtr \in BOOLEAN : SetComponent(e, c, isPtr)
    \/ \E e \in Ents, c \in DynTypes : RemoveComponent(e, c)
    \/ \E types \in SUBSET ReqTypes : Iterate(types)

\* Exact-type scans: writers wait for the read lock of a running scan.
NextSpecific ==
    \/ NoScan /\ \E e \in Ents : AddEntity(e)
    \/ NoScan /\ \E e \in Ents : RemoveEntity(e)
    \/ NoScan /\ \E n \in 0..MaxRoutines : SetRoutineCount(n)
    \/ \E tn \in TypeNames : IterateSpecificCall(tn)
    \/ \E w \in 0..(MaxRoutines - 1) : WorkerScan(w)
    \/ \E w \in 0..(MaxRoutines - 1) : WorkerAppend(w)
    \/ \E w \in 0..(MaxRoutines - 1) : WorkerLock(w)
    \/ \E w \in 0..(MaxRoutines - 1) : WorkerUnlock(w)
    \/ IterateSpecificReturn

\* Lookups by id list.
NextLookup ==
    \/ \E e \in Ents, i \in 1..MaxId : SetID(e, i)
    \/ \E e \in Ents : AddEntity(e)
    \/ \E e \in Ents : RemoveEntity(e)
    \/ \E args \in IdArgs : IterateID(args)

\* Views in direct-pointer mode with well-formed callbacks.
NextView ==
    \/ \E e \in Ents : AddEntity(e)
    \/ \E e \in Ents, c \in ViewTypes \cap DynTypes : SetComponent(e, c, TRUE)
    \/ \E e \in Ents, c \in ViewTypes \cap DynTypes : RemoveComponent(e, c)
    \/ \E e \in Ents, cb \in WellFormed : View(e, cb)
    \/ \E i \in 1..MaxId, cb \in Readers : MustGetView(i, cb)
    \/ \E e \in Ents, cb \in SpecificCallbacks : ViewSpecific(e, cb)

\* Views in the revision whose argument loop lacks the continue.
NextViewOld ==
    \/ \E e \in Ents, c \in ViewTypes \cap DynTypes : SetComponent(e, c, TRUE)
    \/ \E e \in Ents, c \in ViewTypes \cap DynTypes : RemoveComponent(e, c)
    \/ \E e \in Ents, cb \in WellFormed : ViewNoContinue(e, cb)

\* Views with callbacks of any shape.
NextViewAny ==
    \/ \E e \in Ents, c \in ViewTypes \cap DynTypes : SetComponent(e, c, TRUE)
    \/ \E e \in Ents, c \in ViewTypes \cap DynTypes : RemoveComponent(e, c)
    \/ \E e \in Ents, cb \in WellFormed \cup Malformed : View(e, cb)
    \/ \E e \in Ents, cb \in SpecificCallbacks \cup Malformed : ViewSpecific(e, cb)

\* The component table of dynamic entities and scans over it.
NextTable ==
    \/ \E e \in Ents : AddEntity(e)
    \/ \E e \in Ents, c \in DynTypes, isPtr \in BOOLEAN : SetComponent(e, c, isPtr)
    \/ \E e \in Ents, c \in DynTypes : RemoveComponent(e, c)
    \/ \E e \in Ents, c \in DynTypes : CallHasComponent(e, c)
    \/ \E e \in Ents, c \in DynTypes : CallGetComponent(e, c)
    \/ \E c \in DynTypes : Iterate({c})

\* Two stores sharing entity values.
NextStores ==
    \/ \E e \in Ents : AddEntity(e)
    \/ \E e \in Ents : RemoveEntity(e)
    \/ \E e \in SharedEnts : AddEntityB(e)
    \/ \E e \in SharedEnts : RemoveEntityB(e)

\* Views in copy-in/copy-out mode.
NextViewCopy ==
    \/ \E e \in Ents, c \in ViewTypes \cap DynTypes, isPtr \in BOOLEAN :
          SetComponentAny(e, c, isPtr)
    \/ \E e \in Ents, c \in ViewTypes \cap DynTypes : RemoveComponent(e, c)
    \/ \E e \in Ents, cb \in WellFormed : ViewCopy(e, cb)
    \/ \E e \in Ents, c \in ViewTypes \cap DynTypes : GetComponentOut(e, c)

\* Exact-type scans holding the read lock while other threads add, remove,
\* set the worker count and register entity types.
NextScanLock ==
    \/ \E e \in Ents : Locked(e, AddEntity(e))
    \/ \E e \in Ents : Locked(e, RemoveEntity(e))
    \/ \E n \in 1..MaxRoutines : canLock(lock) /\ SetRoutineCount(n)
    \/ \E e \in Ents : RegisterEntity(e)
    \/ \E tn \in TypeNames : IterateSpecificCall(tn)
    \/ \E w \in 0..(MaxRoutines - 1) : WorkerScan(w)
    \/ \E w \in 0..(MaxRoutines - 1) : WorkerAppend(w)
    \/ \E w \in 0..(MaxRoutines - 1) : WorkerLock(w)
    \/ \E w \in 0..(MaxRoutines - 1) : WorkerUnlock(w)
    \/ IterateSpecificReturn

\* Views whose callback calls back into the store, next to other threads.
NextViewLock ==
    \/ \E e \in Ents : Locked(e, AddEntity(e))
    \/ \E t \in Threads, e \in Ents : ViewBegin(t, e)
    \/ \E t \in Threads, i \in 1..MaxId : NestedGet(t, i)
    \/ \E t \in Threads, e \in Ents : LockCall(t, e)
    \/ \E t \in Threads : LockEnter(t)
    \/ \E t \in Threads : ViewEnd(t)

\* Wraps and their validity check.
NextWrap ==
    \/ \E e \in Ents, i \in 1..MaxId : SetID(e, i)
    \/ \E e \in Ents : AddEntity(e)
    \/ \E e \in Ents : RemoveEntity(e)
    \/ \E e \in Ents : Valid(e)
    \/ \E i \in Ids : MustGetValid(i)

\* Import of snapshots into a store with registered entity types.
NextImport ==
    \/ \E e \in Ents : RegisterEntity(e)
    \/ \E ses \in Snapshots : Unmarshal(ses)
    \/ \E e \in Ents : AddEntity(e)
    \/ \E e \in Ents : RemoveEntity(e)

\* Threads removing entities concurrently, the same entity included.
NextRemove ==
    \/ \E e \in Ents : Locked(e, AddEntity(e))
    \/ \E t \in Threads, e \in Ents : LockCall(t, e)
    \/ \E t \in Threads : LockEnter(t)

\* Store calls and component table calls from concurrent threads, next to
\* a running Iterate.
NextLocks ==
    \/ \E e \in SharedEnts : canLock(lock) /\ AddEntity(e)
    \/ \E t \in Threads, e \in SharedEnts : LockCall(t, e)
    \/ \E t \in Threads : LockEnter(t)
    \/ \E i \in 1..MaxId : canRLock(lock) /\ Get(i)
    \/ \E t \in Threads : MarshalBegin(t)
    \/ \E t \in Threads : MarshalEntry(t)
    \/ \E t \in Threads : MarshalGot(t)
    \/ \E t \in Threads : MarshalEnd(t)
    \/ \E n \in (-1)..MaxWorkers : canLock(lock) /\ SetRoutineCount(n)
    \/ \E t \in Threads, e \in Ents : TableLock(t, e)
    \/ \E t \in Threads, c \in DynTypes :
          TableDone(t, setComponent(threads[t].ent, c, TRUE))
    \/ \E t \in Threads, c \in DynTypes :
          TableDone(t, removeComponent(threads[t].ent, c))
    \/ \E t \in Threads, c \in DynTypes :
          TableDone(t, callGetComponent(threads[t].ent, c))
    \/ \E t \in Threads, c \in DynTypes :
          TableDone(t, callHasComponent(threads[t].ent, c))
    \/ \E t \in Threads : TableDone(t, callGetComponents(threads[t].ent))
    \/ \E c \in DynTypes : IterateCall(c)
    \/ \E w \in 0..(MaxWorkers - 1) : IterWorkerScan(w)
    \/ \E w \in 0..(MaxWorkers - 1) : IterWorkerHas(w)
    \/ \E w \in 0..(MaxWorkers - 1) : IterWorkerMerge(w)
    \/ IterateReturn

Next ==
    \/ NextStore \/ NextScan \/ NextSpecific \/ NextLookup
    \/ NextView \/ NextViewOld \/ NextViewAny \/ NextViewCopy \/ NextTable
    \/ NextStores \/ NextAdd \/ NextScanLock \/ NextViewLock
    \/ NextWrap \/ NextImport \/ NextRemove \/ NextLocks

Spec == Init /\ [][Next]_vars
SpecStore == Init /\ [][NextStore]_vars
SpecScan == Init /\ [][NextScan]_vars
SpecSpecific == Init /\ [][NextSpecific]_vars
SpecLookup == Init /\ [][NextLookup]_vars
SpecView == Init /\ [][NextView]_vars
SpecViewOld == Init /\ [][NextViewOld]_vars
SpecViewAny == Init /\ [][NextViewAny]_vars
SpecViewCopy == Init /\ [][NextViewCopy]_vars
SpecTable == Init /\ [][NextTable]_vars
SpecStores == Init /\ [][NextStores]_vars
SpecAdd == Init /\ [][NextAdd]_vars
SpecScanLock == Init /\ [][NextScanLock]_vars
SpecViewLock == Init /\ [][NextViewLock]_vars
SpecWrap == Init /\ [][NextWrap]_vars
SpecImport == Init /\ [][NextImport]_vars
SpecRemove == Init /\ [][NextRemove]_vars
SpecLocks == Init /\ [][NextLocks]_vars

\* ------------------------------------------------------------ properties

IsLiveId(i) == i \in LiveIds

\* One-worker scan of the whole collection.
scanAll(ents, types) ==
    localFoundEnts(metaCache, components, ents, types, 1, 0)

\* C1: get(id) returns a wrap of the entity whose identifier equals id when
\* id is live, and fails with NotFound for every id that is not live
\* (including 0 and ids below the largest live id).
C1_GetExact ==
    ret.op = "Get" =>
        IF IsLiveId(ret.id)
        THEN ret.err = "nil" /\ ret.ent \in LiveEnts /\ id[ret.ent] = ret.id
        ELSE ret.err = "ErrNotFound"

\* C2: after a successful remove(e) of an entity that was live with id i,
\* e's identity reads EntityNone and get(i) fails with NotFound, whatever
\* other entities are still live.
C2_RemovedIdNotFound ==
    [][\A e \in Ents :
          (e \in LiveEnts /\ ret'.op = "RemoveEntity" /\ ret'.ent = e
             /\ ret'.err = "nil")
          => /\ id'[e] = EntityNone
             /\ GetResult(entities', id', id[e]).err = "ErrNotFound"]_vars

\* C3: remove(entity) fails with NoIdentity when the identity is EntityNone
\* and with NotFound when the identifier is not live; in both failure cases
\* the collection and the entity's identity are unchanged.
C3_RemoveFailures ==
    [][\A e \in Ents :
          (ret'.op = "RemoveEntity" /\ ret'.ent = e)
          => /\ id[e] = EntityNone
                  => (ret'.err = "ErrNoID" /\ entities' = entities /\ id' = id)
             /\ (id[e] # EntityNone /\ ~IsLiveId(id[e]))
                  => (ret'.err = "ErrNotFound" /\ entities' = entities
                      /\ id' = id)]_vars

\* C4: a successful remove(e) removes exactly the entry of e; every other
\* entity that was live stays live, is still returned by get under its own
\* id and by the scans it matched before.
C4_RemoveFrame ==
    [][\A e \in Ents :
          (ret'.op = "RemoveEntity" /\ ret'.ent = e /\ ret'.err = "nil")
          => /\ LiveEnts' = LiveEnts \ {e}
             /\ \A o \in LiveEnts \ {e} :
                   /\ GetResult(entities', id', id[o]) = [ent |-> o, err |-> "nil"]
                   /\ \A types \in SUBSET ReqTypes :
                         o \in Range(scanAll(entities, types))
                            => o \in Range(scanAll(entities', types))
             /\ \A i \in Ids : GetResult(entities', id', i).ent # e]_vars

\* C5: absent caller-preset identifiers, every add on an entity with unset
\* identity succeeds and returns a nonzero identifier larger than every
\* identifier returned by an earlier add, also with removes in between.
C5_FreshIdsIncrease ==
    [][\A e \in Ents :
          (ret'.op = "AddEntity" /\ ret'.ent = e /\ id[e] = EntityNone
             /\ ~preset)
          => /\ ret'.err = "nil"
             /\ ret'.id # EntityNone
             /\ id'[e] = ret'.id
             /\ e \in LiveEnts'
             /\ \A k \in 1..Len(addLog) : addLog[k] < ret'.id]_vars

\* C5 witness: three allocator-assigned adds with a remove in between.
C5_Witness ==
    /\ ~preset
    /\ ret.op = "AddEntity" /\ ret.err = "nil"
    /\ Len(addLog) = 3
    /\ Len(entities) = 2

C7_AddPresetSucceeds ==
    [][\A e \in Ents :
          (ret'.op = "AddEntity" /\ ret'.ent = e /\ id[e] # EntityNone
             /\ ~IsLiveId(id[e]))
          => /\ ret'.err = "nil"
             /\ id'[e] = id[e]
             /\ GetResult(entities', id', id[e]) = [ent |-> e, err |-> "nil"]]_vars

\* C8: re-adding an entity after it was removed (identity reset to
\* EntityNone) succeeds and assigns an identifier different from its
\* original one and from every identifier the allocator handed out before.
\* Stated for the add that directly follows the successful remove of the
\* same entity: ret still holds that remove and the id the entity carried.
C8_ReAddFreshId ==
    [][\A e \in Ents :
          (ret.op = "RemoveEntity" /\ ret.ent = e /\ ret.err = "nil"
             /\ ret'.op = "AddEntity" /\ ret'.ent = e)
          => /\ ret'.err = "nil"
             /\ e \in LiveEnts'
             /\ id'[e] # ret.id
             /\ \A k \in 1..Len(addLog) : addLog[k] # id'[e]]_vars

\* The matching rule of the scan, stated on the entity: every requested type
\* is a structural field of the entity's type or is held by the dynamic
\* component table of a dynamic entity.
HasAll(e, types) ==
    \A t \in types :
        \/ t \in StructFields(getTypeName(e))
        \/ IsDynamicEntity(e) /\ t \in components[e]

\* C9: iterateAll(C1..Ck) returns a live entity iff every requested type is
\* a structural field of its type descriptor or, for a dynamic entity, is
\* held by its component table; an empty request returns every live entity.
C9_IterateMatches ==
    (ret.op = "Iterate" /\ ret.err = "nil") =>
        Range(ret.res) = {e \in LiveEnts : HasAll(e, ret.types)}

\* C9 witness: a scan for Name and Velocity returns the dynamic entity that
\* has Name as a field and Velocity in its table, and leaves out a live
\* static entity.
C9_Witness ==
    /\ ret.op = "Iterate" /\ ret.err = "nil"
    /\ ret.types = {"Name", "Velocity"}
    /\ 2 \in Range(ret.res)
    /\ 1 \in LiveEnts /\ 1 \notin Range(ret.res)

\* C10: for every worker count n >= 1 the workers' index ranges are pairwise
\* disjoint and cover every entry, and iterateAll returns the entities the
\* one-worker scan returns, each exactly once.
C10_WorkersPartition ==
    routines >= 1 =>
        LET len == Len(entities)
            W == 0..(routines - 1)
        IN  /\ \A w1, w2 \in W :
                  w1 # w2 => workerRange(len, routines, w1)
                               \cap workerRange(len, routines, w2) = {}
            /\ UNION {workerRange(len, routines, w) : w \in W} = 0..(len - 1)
            /\ ret.op = "Iterate" =>
                  /\ ret.err = "nil"
                  /\ Range(ret.res) = Range(scanAll(entities, ret.types))
                  /\ Len(ret.res) = Len(scanAll(entities, ret.types))
                  /\ \A a, b \in 1..Len(ret.res) : a # b => ret.res[a] # ret.res[b]

\* C10 witness: two workers over three entries, all matching, merged in an
\* order other than the index order.
C10_Witness ==
    /\ ret.op = "Iterate" /\ routines = 2
    /\ Len(entities) = 3 /\ Len(ret.res) = 3
    /\ ret.res[1] = entities[3].Ent

\* C11: a completed IterateSpecific(T) returns exactly the live entities whose
\* type name is T's, each exactly once, for every worker count n >= 1 and
\* every interleaving of the workers.
C11_SpecificExact ==
    (ret.op = "IterateSpecific" /\ ret.err = "nil") =>
        /\ \A j, k \in 1..Len(ret.res) : ret.res[j] = ret.res[k] => j = k
        /\ \E tn \in ret.types :
              Range(ret.res) = {e \in LiveEnts : getTypeName(e) = tn}

\* The wraps IterateID owes for the ids args[k..]: one per live id, of the
\* entity carrying that id, in input order.
RECURSIVE liveByID(_, _)
liveByID(args, k) ==
    IF k > Len(args) THEN <<>>
    ELSE (IF IsLiveId(args[k])
          THEN <<CHOOSE e \in LiveEnts : id[e] = args[k]>>
          ELSE <<>>) \o liveByID(args, k + 1)

\* C12: IterateID(ids...) returns one wrap per live input id, wrapping the
\* entity with exactly that id, in input order; an id that is not live
\* contributes nothing.
C12_IterateIDExact ==
    ret.op = "IterateID" => ret.res = liveByID(ret.arg, 1)

\* A completed view of a live entity whose callback ran and changed what it
\* was handed.
WroteIn(r) ==
    /\ r.op \in {"View", "ViewSpecific"}
    /\ r.res # <<>>
    /\ r.arg.writes
    /\ r.ent \in LiveEnts

\* The components a view's callback was handed (ViewSpecific's callback
\* changes the entity's Name).
handedTo(r) == IF r.op = "ViewSpecific" THEN <<"Name">> ELSE r.arg.params

\* C13: in direct-pointer mode a change made inside a View callback (to a
\* component) or a ViewSpecific callback (to the entity) is seen by the next
\* View obtained through MustGet of the same id; a ViewSpecific leaves the
\* dynamic components as they were.
C13_MutationVisible ==
    [][ /\ ( /\ WroteIn(ret)
             /\ ret'.op = "MustGetView"
             /\ ret'.id = ret.id
             /\ Range(ret'.arg.params) \subseteq Range(handedTo(ret)) )
           => /\ ret'.ent = ret.ent
              /\ ret'.err = "nil"
              /\ Len(ret'.res) = 1
              /\ \A k \in 1..Len(ret'.arg.params), j \in 1..Len(handedTo(ret)) :
                    ret'.arg.params[k] = handedTo(ret)[j]
                      => ret'.res[1][k] = changed(ret.res[1][j])
        /\ ret'.op = "ViewSpecific" /\ ret' # ret
           => /\ dynVal' = dynVal
              /\ components' = components
              /\ dynPtr' = dynPtr ]_vars

\* A lookup by id hands its callback a table entry that an earlier callback
\* changed.
C13_Witness ==
    /\ ret.op = "MustGetView"
    /\ ret.arg.params = <<"Velocity", "Name">>
    /\ ret.res = <<<<1, 1>>>>

\* Component c of entity e resolves: as a struct field, or for a dynamic
\* entity as a table entry.
resolves(e, c) ==
    \/ c \in StructFields(getTypeName(e))
    \/ IsDynamicEntity(e) /\ c \in components[e]

\* C14: View resolves each requested component from the static fields first
\* and, for a dynamic entity, from the table next; when all resolve the
\* callback is invoked exactly once with one argument per parameter, and when
\* one resolves nowhere View fails with NotFound, the callback is not invoked
\* and no component changes.
C14_ViewResolves ==
    [][ (ret'.op \in {"View", "ViewNoContinue"} /\ ret'.arg \in WellFormed) =>
          LET e == ret'.ent
              ps == ret'.arg.params
          IN  IF \A k \in 1..Len(ps) : resolves(e, ps[k])
              THEN /\ ret'.err \in {"nil", "callback error"}
                   /\ ret'.res = <<seenBy(fields, dynVal, e, ps)>>
              ELSE /\ ret'.err = "ErrNotFound"
                   /\ ret'.res = <<>>
                   /\ fields' = fields
                   /\ dynVal' = dynVal
                   /\ components' = components ]_vars

\* The error values View and ViewSpecific return for a callback they reject.
InvalidCallback == {"fn not function", "fn needs a single argument"}

\* C16: View with a non-callable value, or with a callback one of whose
\* parameters is not a pointer to a struct, returns an InvalidCallback error
\* and does not invoke the callback.
C16_MalformedRejected ==
    (ret.op \in {"View", "ViewSpecific"} /\ ret.arg \in Malformed) =>
        /\ ret.err \in InvalidCallback
        /\ ret.res = <<>>

\* C15: in copy-in/copy-out mode, when the callback is invoked and returns an
\* error, View returns that error and every field and table entry of the
\* entity keeps the value it had before the view.
C15_ErrorDiscardsCopies ==
    [][ (ret'.op = "ViewCopy" /\ ret'.res # <<>> /\ ret'.arg.err) =>
          /\ ret'.err = "callback error"
          /\ fields' = fields
          /\ dynVal' = dynVal
          /\ dynPtr' = dynPtr
          /\ components' = components ]_vars

\* A callback that changed its copies of a table entry and of a field that
\* an earlier view had changed, and then returned an error.
C15_Witness ==
    /\ ret.op = "ViewCopy"
    /\ ret.err = "callback error"
    /\ ret.arg.writes
    /\ ret.arg.params = <<"Velocity", "Name">>
    /\ ret.res = <<<<0, 1>>>>

\* The component type a table call was made with.
typeOf(r) == CHOOSE c \in r.types : TRUE

\* C17: RemoveComponent(C) succeeds iff the table holds an entry for C; after
\* a success the entry is gone, after a NotFound the table is unchanged;
\* HasComponent and GetComponent succeed iff the entry is there, and only a
\* SetComponent of the type puts one there.
C17_TableAlgebra ==
    [][ /\ ret'.op = "RemoveComponent" =>
              LET e == ret'.ent
                  c == typeOf(ret')
              IN  /\ ret'.err = "nil" <=> c \in components[e]
                  /\ ret'.err \in {"nil", "ErrNotFound"}
                  /\ ret'.err = "nil" =>
                        components' = [components EXCEPT ![e] = @ \ {c}]
                  /\ ret'.err = "ErrNotFound" =>
                        components' = components /\ dynVal' = dynVal
        /\ ret'.op \in {"HasComponent", "GetComponent"} =>
              /\ ret'.err = "nil" <=> typeOf(ret') \in components[ret'.ent]
              /\ ret'.err \in {"nil", "ErrNotFound"}
        /\ \A e \in Ents, c \in DynTypes :
              (c \notin components[e] /\ c \in components'[e]) =>
                  ret'.op = "SetComponent" /\ ret'.ent = e /\ ret'.types = {c}
      ]_vars

\* A RemoveComponent that found the entry a SetComponent had put there and
\* left the table's other entry alone.
C17_Witness ==
    /\ ret.op = "RemoveComponent"
    /\ ret.err = "nil"
    /\ ret.types = {"Velocity"}
    /\ components[ret.ent] = {"Pos"}

\* C18: SetComponent with a component passed by value returns no error and
\* leaves an entry for its type in the table.
C18_SetByValue ==
    (ret.op = "SetComponent" /\ ret.arg = <<FALSE>>) =>
        /\ ret.err = "nil"
        /\ typeOf(ret) \in components[ret.ent]

\* C19: in every reachable state of every store no live entry has the
\* identifier 0.
C19_NoLiveZero ==
    /\ \A e \in LiveEnts : id[e] # EntityNone
    /\ \A e \in LiveEntsB : id[e] # EntityNone

\* C20: no two live entries of a store carry the same identifier (an entry
\* records its entity, so its identifier is the one the entity reports).
C20_LiveIdsUnique ==
    /\ \A j, k \in 1..Len(entities) :
          id[entities[j].Ent] = id[entities[k].Ent] => j = k
    /\ \A j, k \in 1..Len(entitiesB) :
          id[entitiesB[j].Ent] = id[entitiesB[k].Ent] => j = k

\* C24: whatever integer was passed to SetRoutineCount, zero and negative
\* values included, a later Iterate or IterateSpecific returns a result to
\* its caller.
C24_ScanReturns ==
    ret.op \in {"Iterate", "IterateSpecific"} => ret.err = "nil"

\* C21: when threads add entities with unset identity concurrently, every
\* such call succeeds and its entity is live when the call returns.
C21_ConcurrentAddsSucceed ==
    ret.op = "AddEntity" /\ ret.arg = <<TRUE>> =>
        ret.err = "nil" /\ ret.ent \in LiveEnts

\* C22: the type descriptor cache is written only by a thread that holds
\* the store lock exclusively, so never while a scan is inside the read lock.
C22_CacheWrittenUnderLock ==
    [][metaCache' # metaCache => lock.r = 0 /\ ~lock.w]_vars

\* C29: while an exact-type scan runs it holds the read lock and no add or
\* remove takes effect; the call returns only when every worker is done, it
\* releases the lock then, and workers leave returned results alone.
C29_ScanJoinsUnderLock ==
    [][/\ ~NoScan => lock.r > 0
       /\ ~NoScan => entities' = entities /\ id' = id /\ idCounter' = idCounter
       /\ ~NoScan /\ NoScan' =>
              /\ \A w \in DOMAIN workers : workers[w].pc = "done"
              /\ ret'.res = foundEnts
              /\ lock'.r = lock.r - 1
       /\ ~NoScan /\ ~NoScan' /\ workers' # workers => ret' = ret]_vars

\* A scan with several workers has returned entities and released the lock.
C29_Witness ==
    /\ ret.op = "IterateSpecific"
    /\ ret.err = "nil"
    /\ ret.res # <<>>
    /\ routines >= 2
    /\ NoScan
    /\ lock = Unlocked

\* C28: between the start and the end of a scan the shared result is
\* written only by a worker that is in its merge step and holds the merge
\* lock.
C28_SharedWrittenInMerge ==
    [][~NoScan /\ ~NoScan' /\ foundEnts' # foundEnts =>
           \E w \in DOMAIN workers : workers[w].pc = "unlock"]_vars

\* C23: a store call made by a View callback gets the store lock: when the
\* callback waits in ecs.Lock() and every other thread is idle, the lock is
\* free for it.
C23_NestedCallProceeds ==
    \A t \in Threads :
        /\ threads[t].pc = "fnlockwait"
        /\ \A u \in Threads \ {t} : threads[u] = Idle
        => canLock(lock)

\* C25: Valid() on a wrap made with Access reports true exactly when the
\* wrapped entity is live in the store.
C25_ValidIffLive ==
    ret.op = "Valid" => (ret.res = <<TRUE>> <=> ret.ent \in LiveEnts)

\* C26: for an identifier that is not live, MustGet returns a result whose
\* validity check can be called and reports invalid.
C26_MissReportsInvalid ==
    ret.op = "MustGetValid" /\ ret.id \notin LiveIds =>
        ret.err = "nil" /\ ret.res = <<FALSE>>

\* C27: the add of an entity with unset identity that follows an import
\* succeeds and receives an identifier above every imported one.
C27_AddAfterImport ==
    [][ret.op = "Unmarshal" /\ ret'.op = "AddEntity" /\ id[ret'.ent] = 0 =>
           /\ ret'.err = "nil"
           /\ \A k \in DOMAIN entities : ret'.id > id[entities[k].Ent]]_vars

\* C30: a cached type descriptor is never changed and never deleted, whatever
\* operation runs: add, registration, remove or import.
C30_DescriptorWriteOnce ==
    [][\A tn \in DOMAIN metaCache :
           tn \in DOMAIN metaCache' /\ metaCache'[tn] = metaCache[tn]]_vars

\* The last entity of a type was removed and its descriptor is still cached,
\* next to the descriptor of the other type.
C30_Witness ==
    /\ ret.op = "RemoveEntity"
    /\ ret.err = "nil"
    /\ entities = <<>>
    /\ DOMAIN metaCache = TypeNames
    /\ metaCache[getTypeName(ret.ent)] = StructFields(getTypeName(ret.ent))

\* C34: an add of an entity with unset identity does not fail with
\* AlreadyExists: the identifier the allocator assigns was not live before
\* the call and the entity is stored under it afterwards.
C34_FreshAddStored ==
    [][\A e \in Ents :
          (ret'.op = "AddEntity" /\ ret'.ent = e /\ id[e] = EntityNone)
          => /\ ret'.err # "ErrAlreadyExists"
             /\ ~IsLiveId(ret'.id)
             /\ e \in LiveEnts'
             /\ id'[e] = ret'.id]_vars

\* C32: in every reachable state the entries of the store are strictly
\* increasing by identifier.
C32_EntriesSorted ==
    \A k \in 1..(Len(entities) - 1) :
        id[entities[k].Ent] < id[entities[k + 1].Ent]

\* C33: when threads remove concurrently, a remove succeeds only for an
\* entity that is live when the call gets the lock, so of two calls on the
\* same entity at most one succeeds, and a returning remove takes no entity
\* but the one it was passed out of the store.
C33_ConcurrentRemoveOnce ==
    [][\A t \in Threads :
          (threads[t].pc = "lockwait" /\ threads'[t] = Idle)
          => /\ ret'.err = "nil" => threads[t].ent \in LiveEnts
             /\ (LiveEnts \ LiveEnts') \subseteq {threads[t].ent}]_vars

\* C31: after a copy-mode View that returned without error and whose
\* callback modified a component held by the dynamic table, a GetComponent
\* of that type succeeds and yields the stored (modified) value, and a
\* second View asking for that component does not fail.
C31_WriteBackReadable ==
    [][\A c \in DynTypes :
          (/\ ret.op = "ViewCopy" /\ ret.err = "nil" /\ ret.arg.writes
           /\ c \in Range(ret.arg.params)
           /\ c \notin StructFields(getTypeName(ret.ent))
           /\ ret'.ent = ret.ent)
          => /\ (ret'.op = "GetComponentOut" /\ ret'.types = {c})
                   => ret'.err = "nil" /\ ret'.res = <<dynVal[ret.ent][c]>>
             /\ (ret'.op = "ViewCopy" /\ c \in Range(ret'.arg.params))
                   => ret'.err \in {"nil", "callback error"}]_vars


\* C35: no interleaving of store calls with component table calls deadlocks.
\* The mutex of an entity is held only by a thread inside a table call (which
\* neither holds nor waits for the store lock) or by a goroutine of a scan
\* that already holds the store's read lock, so the order is always store
\* lock, then entity mutex; while any call is in flight some in-flight call
\* can take its next step; and once every call has returned, the store lock
\* and every entity mutex are free.
C35_NoLockDeadlock ==
    LET inFlight == ~NoScan \/ \E t \in Threads : threads[t] # Idle
        step ==
            \/ \E t \in Threads : LockEnter(t)
            \/ \E t \in Threads : MarshalEntry(t)
            \/ \E t \in Threads : MarshalGot(t)
            \/ \E t \in Threads : MarshalEnd(t)
            \/ \E t \in Threads, c \in DynTypes :
                  TableDone(t, setComponent(threads[t].ent, c, TRUE))
            \/ \E w \in 0..(MaxWorkers - 1) : IterWorkerScan(w)
            \/ \E w \in 0..(MaxWorkers - 1) : IterWorkerHas(w)
            \/ \E w \in 0..(MaxWorkers - 1) : IterWorkerMerge(w)
            \/ IterateReturn
    IN  /\ \A e \in Ents :
              /\ entLock[e] > 0 =>
                    \/ threads[entLock[e]] = Thread("table", e, FALSE)
                    \/ /\ threads[entLock[e]].pc = "marshalget"
                       /\ entities[threads[entLock[e]].ent + 1].Ent = e
                       /\ lock.w
              /\ entLock[e] < 0 =>
                    /\ lock.r > 0
                    /\ \E w \in DOMAIN workers :
                          /\ entLock[e] = workerHolder(w)
                          /\ workers[w].pc = "has"
                          /\ entities[workers[w].i + 1].Ent = e
        /\ \A t \in Threads :
              threads[t].pc = "table" => entLock[threads[t].ent] = t
        /\ lock.r = (IF NoScan THEN 0 ELSE 1)
        /\ lock.w = (\E t \in Threads : threads[t].pc \in {"marshal", "marshalget"})
        /\ \A t \in Threads :
              threads[t].pc = "marshalget" => entLock[entities[threads[t].ent + 1].Ent] = t
        /\ inFlight => ENABLED step
        /\ ~inFlight => lock = Unlocked /\ \A e \in Ents : entLock[e] = NoHolder

\* A remover waits for the store lock held by a scan whose goroutine waits
\* for the mutex of an entity that a table call of another thread holds.
C35_Witness ==
    \E t1 \in Threads, t2 \in Threads, w \in DOMAIN workers :
        /\ threads[t1].pc = "lockwait"
        /\ threads[t2].pc = "table"
        /\ workers[w].pc = "scan"
        /\ inRange(w)
        /\ entities[workers[w].i + 1].Ent = threads[t2].ent
        /\ ~(/\ entities[workers[w].i + 1].TypeName \in DOMAIN metaCache
             /\ searchName \in metaCache[entities[workers[w].i + 1].TypeName])
        /\ entLock[threads[t2].ent] = t2

====
